---- MODULE Spec2Model ----
\* Sales analytics backend: the Dataset Store (app.py: the global processor,
\* the active dataset file, upload_file) and the Aggregation Engine
\* (data_processor.py: load_data, filter_data, get_table_data, get_kpi_metrics).
\*
\* Representation choices
\*  - a CSV file is [exists, wellformed, header, rows]; a text row carries Date
\*    as the ISO string written in the file, numbers as the numbers they denote;
\*  - a polars DataFrame is [none, columns, rows]; none = TRUE stands for
\*    self.df = None; a typed row carries Date as a day ordinal (pl.Date);
\*  - a comma separated query argument is the sequence of its items, so that
\*    str.split(',') yields that sequence;
\*  - an optional argument or dict key is [has, val]; an optional number is a
\*    sequence of length 0 (None / null) or 1;
\*  - pl.read_csv applies the dtypes overrides to the columns that are present
\*    (the required-column test of upload_file is reachable only then);
\*  - DataFrame.sort is taken to keep the relative order of equal keys;
\*  - a Date column compared with an ISO date string compares as dates;
\*  - os.rename inside shutil.move is atomic;
\*  - secure_filename leaves the file names used here as they are;
\*  - the server handles each request on a thread of its own (app.run).
EXTENDS Integers, Sequences, FiniteSets, TLC

\* ---------------------------------------------------------------- bounds
MaxRows == 3
MaxFaults == 1
MaxClock == 1
NUploaders == 2
NReaders == 1
NWriters == 1
MaxPerPage == 2
MaxPage == MaxRows + 1

\* ---------------------------------------------------------------- data
RequiredColumns ==
  {"Sale_ID", "Date", "Units_Sold", "Price_Per_Unit", "Revenue", "Region", "Sales_Channel"}

ALLOWED_EXTENSIONS == {"csv"}

DateStrings == {"2025-01-01", "2025-01-15", "2025-02-01"}

\* pl.Date parsing of an ISO date: the day ordinal within 2025
ParseDate(s) ==
  CASE s = "2025-01-01" -> 1
    [] s = "2025-01-15" -> 15
    [] s = "2025-02-01" -> 32

\* date.strftime('%Y-%m-%d')
strftime(d) ==
  CASE d = 1 -> "2025-01-01"
    [] d = 15 -> "2025-01-15"
    [] d = 32 -> "2025-02-01"

TextRow(id, date, units, price, revenue, region, channel) ==
  [Sale_ID |-> id, Date |-> date, Units_Sold |-> units, Price_Per_Unit |-> price,
   Revenue |-> revenue, Region |-> region, Sales_Channel |-> channel]

RowPool ==
  { TextRow(1, "2025-01-01", 1, 10, 30, "North", "Web"),
    TextRow(2, "2025-01-01", 2, 20, 10, "South", "Web"),
    TextRow(3, "2025-02-01", 1, 30, 20, "North", "Store"),
    TextRow(4, "2025-01-15", 3, 20, 30, "South", "Store") }

RECURSIVE SeqsNoRepeat(_, _)
SeqsNoRepeat(S, n) ==
  IF n = 0 THEN { <<>> }
  ELSE LET shorter == SeqsNoRepeat(S, n - 1)
       IN shorter \cup { Append(s, x) : s \in { q \in shorter : Len(q) = n - 1 },
                                         x \in S }

NoRepeat(s) == \A i, j \in 1..Len(s) : i # j => s[i] # s[j]

RowSeqs == { s \in SeqsNoRepeat(RowPool, MaxRows) : NoRepeat(s) }

AbsentFile == [exists |-> FALSE]

Csv(header, rows) ==
  [exists |-> TRUE, wellformed |-> TRUE, header |-> header, rows |-> rows]

CsvUniverse == { Csv(RequiredColumns, rows) : rows \in RowSeqs }

Row(n) == CHOOSE r \in RowPool : r.Sale_ID = n

\* named files used by the upload scenarios
FileD0 == Csv(RequiredColumns, << Row(1), Row(2) >>)
FileU1 == Csv(RequiredColumns, << Row(1), Row(2), Row(3) >>)
FileU2 == Csv(RequiredColumns, << Row(4) >>)
FileNoRegion ==
  Csv(RequiredColumns \ {"Region"},
      << [Sale_ID |-> 5, Date |-> "2025-01-15", Units_Sold |-> 1,
          Price_Per_Unit |-> 10, Revenue |-> 10, Sales_Channel |-> "Web"] >>)
FileGarbage ==
  [exists |-> TRUE, wellformed |-> FALSE, header |-> {}, rows |-> <<>>]

\* ---------------------------------------------------------------- DataProcessor
NoneDF == [none |-> TRUE, columns |-> {}, rows |-> <<>>]

DataFrame(columns, rows) == [none |-> FALSE, columns |-> columns, rows |-> rows]

\* one text row coerced by the dtypes of load_data
Coerce(header, r) ==
  [c \in header |-> IF c = "Date" THEN ParseDate(r[c]) ELSE r[c]]

\* DataProcessor.load_data: io = FALSE is pl.read_csv raising an I/O error
load_data(file, io) ==
  IF ~io \/ ~file.exists \/ ~file.wellformed THEN NoneDF
  ELSE DataFrame(file.header, [i \in 1..Len(file.rows) |-> Coerce(file.header, file.rows[i])])

\* DataProcessor.__init__
DataProcessor(csv_path, file, io) == [csv_path |-> csv_path, df |-> load_data(file, io)]

Ok(v) == [raised |-> FALSE, val |-> v]
Raise(e) == [raised |-> TRUE, exc |-> e]

InList(x, list) == \E i \in 1..Len(list) : list[i] = x

\* a key that is not in the dict: a date, and a list or a number
NoDate == [has |-> FALSE, val |-> ""]
NoArg == [has |-> FALSE, val |-> <<>>]
Arg(v) == [has |-> TRUE, val |-> v]
FilterKeys == {"start_date", "end_date", "regions", "channels", "min_price", "max_price"}
DateKeys == {"start_date", "end_date"}
NoFilters == [k \in FilterKeys |-> IF k \in DateKeys THEN NoDate ELSE NoArg]

\* `k in filters and filters[k]`: the empty string and the empty list are falsy
TruthyDate(a) == a.has /\ a.val # ""
Truthy(a) == a.has /\ a.val # <<>>
\* `k in filters and filters[k] is not None`
NotNone(a) == a.has /\ a.val # <<>>

\* the columns the supplied criteria refer to
UsedColumns(filters) ==
  (IF TruthyDate(filters.start_date) \/ TruthyDate(filters.end_date) THEN {"Date"} ELSE {}) \cup
  (IF Truthy(filters.regions) THEN {"Region"} ELSE {}) \cup
  (IF Truthy(filters.channels) THEN {"Sales_Channel"} ELSE {}) \cup
  (IF NotNone(filters.min_price) \/ NotNone(filters.max_price) THEN {"Price_Per_Unit"} ELSE {})

\* the predicate of one criterion of filter_data
Pass_exclusive(r, k, filters) ==
  CASE k = "start_date" -> r.Date >= ParseDate(filters.start_date.val)
    [] k = "end_date" -> r.Date <= ParseDate(filters.end_date.val)
    [] k = "regions" -> InList(r.Region, filters.regions.val)
    [] k = "channels" -> InList(r.Sales_Channel, filters.channels.val)
    [] k = "min_price" -> r.Price_Per_Unit >= filters.min_price.val[1]
    [] k = "max_price" -> r.Price_Per_Unit < filters.max_price.val[1]

Pass(r, k, filters) ==
  CASE k = "start_date" -> r.Date >= ParseDate(filters.start_date.val)
    [] k = "end_date" -> r.Date <= ParseDate(filters.end_date.val)
    [] k = "regions" -> InList(r.Region, filters.regions.val)
    [] k = "channels" -> InList(r.Sales_Channel, filters.channels.val)
    [] k = "min_price" -> r.Price_Per_Unit >= filters.min_price.val[1]
    [] k = "max_price" -> r.Price_Per_Unit <= filters.max_price.val[1]

RECURSIVE Keep(_, _, _)
\* DataFrame.filter: the rows passing criterion k, in order
Keep(rows, k, filters) ==
  IF rows = <<>> THEN <<>>
  ELSE IF Pass(Head(rows), k, filters) THEN <<Head(rows)>> \o Keep(Tail(rows), k, filters)
       ELSE Keep(Tail(rows), k, filters)

\* DataProcessor.filter_data
filter_data(df, filters) ==
  IF df.none THEN Ok(NoneDF)
  ELSE IF ~(UsedColumns(filters) \subseteq df.columns) THEN Raise("ColumnNotFoundError")
  ELSE
    LET f1 == IF TruthyDate(filters.start_date) THEN Keep(df.rows, "start_date", filters) ELSE df.rows
        f2 == IF TruthyDate(filters.end_date) THEN Keep(f1, "end_date", filters) ELSE f1
        f3 == IF Truthy(filters.regions) THEN Keep(f2, "regions", filters) ELSE f2
        f4 == IF Truthy(filters.channels) THEN Keep(f3, "channels", filters) ELSE f3
        f5 == IF NotNone(filters.min_price) THEN Keep(f4, "min_price", filters) ELSE f4
        f6 == IF NotNone(filters.max_price) THEN Keep(f5, "max_price", filters) ELSE f5
    IN Ok(DataFrame(df.columns, f6))

StringRank(s) ==
  CASE s = "North" -> 1 [] s = "South" -> 2 [] s = "Store" -> 3 [] s = "Web" -> 4

StringColumns == {"Region", "Sales_Channel"}

SortKey(r, col) == IF col \in StringColumns THEN StringRank(r[col]) ELSE r[col]

RECURSIVE InsertSorted(_, _, _, _)
\* r placed after every row that does not have to follow it
InsertSorted(sorted, r, col, descending) ==
  IF sorted = <<>> THEN << r >>
  ELSE LET h == Head(sorted)
           before == IF descending THEN SortKey(h, col) >= SortKey(r, col)
                     ELSE SortKey(h, col) <= SortKey(r, col)
       IN IF before THEN << h >> \o InsertSorted(Tail(sorted), r, col, descending)
          ELSE << r >> \o sorted

RECURSIVE SortRows(_, _, _)
\* DataFrame.sort(col, descending=...)
SortRows(rows, col, descending) ==
  IF rows = <<>> THEN <<>>
  ELSE InsertSorted(SortRows(SubSeq(rows, 1, Len(rows) - 1), col, descending),
                    rows[Len(rows)], col, descending)

Min(a, b) == IF a <= b THEN a ELSE b

\* DataFrame.slice(offset, length) for offset >= 0
Slice(rows, offset, length) == SubSeq(rows, offset + 1, Min(Len(rows), offset + length))

\* the record a row is rendered as: Date replaced by its ISO string
Render(r) == [c \in DOMAIN r |-> IF c = "Date" THEN strftime(r[c]) ELSE r[c]]

TotalPages_floor(total_records, per_page) == total_records \div per_page

\* total_pages of get_table_data
TotalPages(total_records, per_page) == (total_records + per_page - 1) \div per_page

\* DataProcessor.get_table_data for page >= 1, per_page >= 0
get_table_data(df, page, per_page, sort_by, sort_order) ==
  IF df.none THEN Ok([data |-> <<>>, total |-> 0, pages |-> 0])
  ELSE IF sort_by \notin df.columns THEN Raise("ColumnNotFoundError")
  ELSE IF per_page = 0 THEN Raise("ZeroDivisionError")
  ELSE
    LET sorted_df == SortRows(df.rows, sort_by, sort_order # "asc")
        total_records == Len(sorted_df)
        total_pages == TotalPages(total_records, per_page)
        offset == (page - 1) * per_page
        page_data == Slice(sorted_df, offset, per_page)
    IN IF page_data # <<>> /\ "Date" \notin df.columns THEN Raise("KeyError")
       ELSE Ok([data |-> [i \in 1..Len(page_data) |-> Render(page_data[i])],
                total |-> total_records, pages |-> total_pages, current_page |-> page])

RECURSIVE SumOf(_, _)
SumOf(rows, col) == IF rows = <<>> THEN 0 ELSE Head(rows)[col] + SumOf(Tail(rows), col)

\* DataProcessor.get_kpi_metrics: the sums and the transaction count; the
\* mean of an empty column is None and float(None) raises
get_kpi_metrics(df) ==
  IF df.none THEN Ok([empty |-> TRUE])
  ELSE IF ~({"Revenue", "Units_Sold", "Price_Per_Unit"} \subseteq df.columns)
       THEN Raise("ColumnNotFoundError")
  ELSE IF df.rows = <<>> THEN Raise("TypeError")
  ELSE Ok([empty |-> FALSE,
           total_revenue |-> SumOf(df.rows, "Revenue"),
           total_units |-> SumOf(df.rows, "Units_Sold"),
           total_transactions |-> Len(df.rows)])

\* DataProcessor.get_revenue_by_region: one entry per Region; the order of the
\* entries (by total_revenue, descending) is left out
get_revenue_by_region(df) ==
  IF df.none THEN Ok({})
  ELSE IF ~({"Revenue", "Units_Sold", "Region"} \subseteq df.columns)
       THEN Raise("ColumnNotFoundError")
  ELSE Ok({ [Region |-> g,
             total_revenue |-> SumOf(SelectSeq(df.rows, LAMBDA r : r.Region = g), "Revenue"),
             total_units |-> SumOf(SelectSeq(df.rows, LAMBDA r : r.Region = g), "Units_Sold"),
             transaction_count |-> Len(SelectSeq(df.rows, LAMBDA r : r.Region = g))] :
            g \in { df.rows[i].Region : i \in 1..Len(df.rows) } })

\* ---------------------------------------------------------------- files
\* app.py joins UPLOAD_FOLDER ('data') for the temporary and the backup files
\* and ('..', 'data') for the active file
DATA_FILE == [dir |-> "../data", kind |-> "active", name |-> <<"AI_Note_Taking_Pin_Sales_Data__2025_", "csv">>, ts |-> 0]

TempPath(filename) == [dir |-> "data", kind |-> "temp", name |-> filename, ts |-> 0]

\* backup_<YYYYMMDD>_<HHMMSS>.csv: one name per second of the clock
BackupPath(now) == [dir |-> "data", kind |-> "backup", name |-> <<"backup", "csv">>, ts |-> now]

Lower(x) == IF x = "CSV" THEN "csv" ELSE x

\* a filename is the sequence of its '.'-separated parts
allowed_file(filename) ==
  Len(filename) > 1 /\ Lower(filename[Len(filename)]) \in ALLOWED_EXTENSIONS

Filenames == { <<"a", "csv">>, <<"b", "CSV">>, <<"notes", "txt">>, <<>> }

UploadFiles == { FileU1, FileU2, FileNoRegion, FileGarbage }

UploadRequests ==
  { [kind |-> "upload", has_file |-> TRUE, filename |-> f, content |-> c] :
      f \in { <<"a", "csv">>, <<"b", "CSV">> }, c \in UploadFiles }
  \cup { [kind |-> "upload", has_file |-> h, filename |-> f, content |-> FileU2] :
           h \in BOOLEAN, f \in { <<"notes", "txt">>, <<>> } }

BackupPaths == { BackupPath(c) : c \in 0..MaxClock }
TempPaths == { TempPath(f) : f \in { g \in Filenames : allowed_file(g) } }
Paths == {DATA_FILE} \cup TempPaths \cup BackupPaths

Uploaders == 1..NUploaders
Readers == (NUploaders + 1)..(NUploaders + NReaders)
Threads == Uploaders \cup Readers

VARIABLES
  fs,          \* the files on disk: path -> file
  processor,   \* the global processor of app.py
  clock,       \* datetime.now(), in seconds
  faults,      \* the I/O errors raised so far
  pc,          \* where each request handler stands
  req,         \* each handler's request
  loc,         \* each handler's local variables
  resp         \* each handler's response

vars == << fs, processor, clock, faults, pc, req, loc, resp >>

NoReq == [kind |-> "none"]
NoLoc == [df |-> NoneDF, backup_path |-> BackupPath(0),
          newp |-> [csv_path |-> DATA_FILE, df |-> NoneDF]]
NoResp == [status |-> 0, body |-> [none |-> TRUE]]

\* the outcomes of one I/O call: TRUE it succeeds, FALSE it raises OSError
IOChoices == IF faults < MaxFaults THEN {TRUE, FALSE} ELSE {TRUE}
Count(io) == IF io THEN faults ELSE faults + 1

\* jsonify(...), status
Reply(t, status, body) ==
  /\ resp' = [resp EXCEPT ![t] = [status |-> status, body |-> body]]
  /\ pc' = [pc EXCEPT ![t] = "done"]

Error(msg) == [error |-> msg]

\* what app.py leaves behind after the module is imported: processor =
\* DataProcessor(DATA_FILE), no request in flight
Boot(active, faultsSoFar) ==
  /\ fs = [p \in Paths |-> IF p = DATA_FILE THEN active ELSE AbsentFile]
  /\ processor = DataProcessor(DATA_FILE, active, TRUE)
  /\ clock = 0
  /\ faults = faultsSoFar
  /\ pc = [t \in Threads |-> "idle"]
  /\ req = [t \in Threads |-> NoReq]
  /\ loc = [t \in Threads |-> NoLoc]
  /\ resp = [t \in Threads |-> NoResp]

Init == \E active \in {FileD0, AbsentFile} : Boot(active, 0)

\* the same server on a disk that never fails
InitNoFault == \E active \in {FileD0, AbsentFile} : Boot(active, MaxFaults)

\* any dataset file at start, for the claims about the query functions
InitAnyDataset == \E active \in CsvUniverse \cup {FileGarbage, AbsentFile} : Boot(active, MaxFaults)

\* a handler thread takes a request when it has none
Idle(t) == pc[t] = "idle"

\* ---------------------------------------------------------------- upload_file
\* lines 141-155: the request checks and file.save(temp_path)
UploadSave(t, requests) ==
  /\ Idle(t)
  /\ \E r \in requests :
     /\ req' = [req EXCEPT ![t] = r]
     /\ IF ~r.has_file THEN
          /\ Reply(t, 400, Error("No file provided"))
          /\ UNCHANGED fs
        ELSE IF r.filename = <<>> THEN
          /\ Reply(t, 400, Error("No file selected"))
          /\ UNCHANGED fs
        ELSE IF ~allowed_file(r.filename) THEN
          /\ Reply(t, 400, Error("Invalid file type"))
          /\ UNCHANGED fs
        ELSE
          /\ fs' = [fs EXCEPT ![TempPath(r.filename)] = r.content]
          /\ pc' = [pc EXCEPT ![t] = "validate_load"]
          /\ UNCHANGED resp
     /\ UNCHANGED << processor, clock, faults, loc >>

\* line 159: test_processor = DataProcessor(temp_path)
ValidateLoad(t) ==
  \E io \in IOChoices :
    /\ pc[t] = "validate_load"
    /\ loc' = [loc EXCEPT ![t].df = load_data(fs[TempPath(req[t].filename)], io)]
    /\ faults' = Count(io)
    /\ pc' = [pc EXCEPT ![t] = "validate_check"]
    /\ UNCHANGED << fs, processor, clock, req, resp >>

\* lines 160-173: the two checks; os.remove(temp_path) on a missing file raises
\* and ends in the except branch, which finds nothing to remove
ValidateCheck(t) ==
  /\ pc[t] = "validate_check"
  /\ LET temp_path == TempPath(req[t].filename)
         missing == ~fs[temp_path].exists
     IN IF loc[t].df.none THEN
          /\ fs' = [fs EXCEPT ![temp_path] = AbsentFile]
          /\ Reply(t, 400, Error(IF missing THEN "Error validating CSV"
                                 ELSE "Invalid CSV file format"))
        ELSE IF ~(RequiredColumns \subseteq loc[t].df.columns) THEN
          /\ fs' = [fs EXCEPT ![temp_path] = AbsentFile]
          /\ Reply(t, 400, Error(IF missing THEN "Error validating CSV"
                                 ELSE "CSV must contain columns"))
        ELSE
          /\ pc' = [pc EXCEPT ![t] = "backup"]
          /\ UNCHANGED << fs, resp >>
  /\ UNCHANGED << processor, clock, faults, req, loc >>

\* lines 176-178: backup_path from the clock; shutil.copy2(DATA_FILE, backup_path)
Backup(t) ==
  \E io \in IOChoices :
    /\ pc[t] = "backup"
    /\ loc' = [loc EXCEPT ![t].backup_path = BackupPath(clock)]
    /\ IF ~fs[DATA_FILE].exists THEN
         /\ io
         /\ pc' = [pc EXCEPT ![t] = "move"]
         /\ UNCHANGED << fs, resp >>
       ELSE IF io THEN
         /\ fs' = [fs EXCEPT ![BackupPath(clock)] = fs[DATA_FILE]]
         /\ pc' = [pc EXCEPT ![t] = "move"]
         /\ UNCHANGED resp
       ELSE
         /\ Reply(t, 500, Error("OSError"))
         /\ UNCHANGED fs
    /\ faults' = Count(io)
    /\ UNCHANGED << processor, clock, req >>

\* line 181: shutil.move(temp_path, DATA_FILE)
Move(t) ==
  \E io \in IOChoices :
    /\ pc[t] = "move"
    /\ LET temp_path == TempPath(req[t].filename)
       IN IF ~fs[temp_path].exists THEN
            /\ io
            /\ Reply(t, 500, Error("FileNotFoundError"))
            /\ UNCHANGED fs
          ELSE IF io THEN
            /\ fs' = [fs EXCEPT ![DATA_FILE] = fs[temp_path], ![temp_path] = AbsentFile]
            /\ pc' = [pc EXCEPT ![t] = "reload"]
            /\ UNCHANGED resp
          ELSE
            /\ Reply(t, 500, Error("OSError"))
            /\ UNCHANGED fs
    /\ faults' = Count(io)
    /\ UNCHANGED << processor, clock, req, loc >>

\* line 185, right-hand side: DataProcessor(DATA_FILE)
Reload(t) ==
  \E io \in IOChoices :
    /\ pc[t] = "reload"
    /\ loc' = [loc EXCEPT ![t].newp = DataProcessor(DATA_FILE, fs[DATA_FILE], io)]
    /\ faults' = Count(io)
    /\ pc' = [pc EXCEPT ![t] = "assign"]
    /\ UNCHANGED << fs, processor, clock, req, resp >>

\* line 185, the assignment to the global
Assign(t) ==
  /\ pc[t] = "assign"
  /\ processor' = loc[t].newp
  /\ pc' = [pc EXCEPT ![t] = "respond"]
  /\ UNCHANGED << fs, clock, faults, req, loc, resp >>

\* lines 187-194: len(processor.df) reads the global again; len(None) raises
Respond(t) ==
  /\ pc[t] = "respond"
  /\ IF processor.df.none THEN Reply(t, 500, Error("TypeError"))
     ELSE Reply(t, 200, [message |-> "File uploaded successfully",
                         records |-> Len(processor.df.rows),
                         backup_file |-> loc[t].backup_path])
  /\ UNCHANGED << fs, processor, clock, faults, req, loc >>

\* one second passes
Tick ==
  /\ clock < MaxClock
  /\ clock' = clock + 1
  /\ UNCHANGED << fs, processor, faults, pc, req, loc, resp >>

\* ---------------------------------------------------------------- readers
F(start_date, end_date, regions, channels, min_price, max_price) ==
  [start_date |-> start_date, end_date |-> end_date, regions |-> regions,
   channels |-> channels, min_price |-> min_price, max_price |-> max_price]

FilterChoices ==
  { NoFilters,
    F(Arg("2025-01-15"), NoDate, NoArg, NoArg, NoArg, NoArg),
    F(NoDate, Arg("2025-01-15"), NoArg, NoArg, NoArg, NoArg),
    F(Arg("2025-01-15"), Arg("2025-02-01"), NoArg, NoArg, NoArg, NoArg),
    F(Arg(""), NoDate, NoArg, NoArg, NoArg, NoArg),
    F(NoDate, NoDate, Arg(<<"North">>), NoArg, NoArg, NoArg),
    F(NoDate, NoDate, Arg(<<"South", "North">>), NoArg, NoArg, NoArg),
    F(NoDate, NoDate, Arg(<<>>), NoArg, NoArg, NoArg),
    F(NoDate, NoDate, NoArg, Arg(<<"Web">>), NoArg, NoArg),
    F(NoDate, NoDate, NoArg, NoArg, Arg(<<20>>), NoArg),
    F(NoDate, NoDate, NoArg, NoArg, NoArg, Arg(<<20>>)),
    F(NoDate, NoDate, NoArg, NoArg, Arg(<<20>>), Arg(<<20>>)),
    F(NoDate, NoDate, NoArg, NoArg, Arg(<<>>), NoArg),
    F(Arg("2025-01-01"), NoDate, Arg(<<"North">>), Arg(<<"Web", "Store">>), NoArg, Arg(<<20>>)) }

SortColumns == {"Date", "Revenue", "Region", "Bogus"}

GetDataRequest(page, per_page, sort_by, sort_order, args) ==
  [kind |-> "get_data", page |-> page, per_page |-> per_page, sort_by |-> sort_by,
   sort_order |-> sort_order, args |-> args]

AllReads ==
  { GetDataRequest(page, per_page, sort_by, sort_order, args) :
      page \in 1..MaxPage, per_page \in 0..MaxPerPage, sort_by \in SortColumns,
      sort_order \in {"asc", "desc"}, args \in FilterChoices }
  \cup { [kind |-> "analytics", filters |-> f] : f \in FilterChoices }
  \cup { [kind |-> "kpi"] }

\* the reads issued while uploads run
FewReads ==
  { GetDataRequest(1, 2, "Revenue", "asc", NoFilters),
    GetDataRequest(1, 2, "Date", "desc", F(NoDate, NoDate, Arg(<<"North">>), NoArg, NoArg, NoArg)),
    [kind |-> "analytics", filters |-> NoFilters],
    [kind |-> "kpi"] }

\* get_data lines 106-118: a criterion enters the dict when its argument is truthy
BuildFilters(args) ==
  [k \in FilterKeys |->
     IF k \in DateKeys THEN (IF TruthyDate(args[k]) THEN args[k] ELSE NoDate)
     ELSE (IF Truthy(args[k]) THEN args[k] ELSE NoArg)]

\* `if filters:`
NonEmpty(filters) == \E k \in FilterKeys : filters[k].has

Answer(t, res) ==
  IF res.raised THEN Reply(t, 500, Error(res.exc)) ELSE Reply(t, 200, res.val)

TableFrame_global(t) == processor.df

\* line 126: temp_processor.df = filtered_df
TableFrame(t) == loc[t].df

\* get_data up to its first use of the global processor (line 123 or line 132)
GetData(t, requests) ==
  /\ Idle(t)
  /\ \E r \in { q \in requests : q.kind = "get_data" } :
     /\ req' = [req EXCEPT ![t] = r]
     /\ LET filters == BuildFilters(r.args)
        IN IF NonEmpty(filters) THEN
             LET filtered == filter_data(processor.df, filters)
             IN IF filtered.raised THEN
                  /\ Reply(t, 500, Error(filtered.exc))
                  /\ UNCHANGED loc
                ELSE IF filtered.val.none THEN
                  /\ Reply(t, 200, [data |-> <<>>, total |-> 0, pages |-> 0,
                                    current_page |-> r.page])
                  /\ UNCHANGED loc
                ELSE
                  /\ loc' = [loc EXCEPT ![t].df = filtered.val]
                  /\ pc' = [pc EXCEPT ![t] = "gd_table"]
                  /\ UNCHANGED resp
           ELSE
             /\ Answer(t, get_table_data(processor.df, r.page, r.per_page, r.sort_by, r.sort_order))
             /\ UNCHANGED loc
     /\ UNCHANGED << fs, processor, clock, faults >>

\* get_data lines 125-134: the page of the filtered frame
GetDataTable(t) ==
  /\ pc[t] = "gd_table"
  /\ Answer(t, get_table_data(TableFrame(t), req[t].page, req[t].per_page,
                              req[t].sort_by, req[t].sort_order))
  /\ UNCHANGED << fs, processor, clock, faults, req, loc >>

\* get_filtered_analytics lines 200-205
Analytics(t, requests) ==
  /\ Idle(t)
  /\ \E r \in { q \in requests : q.kind = "analytics" } :
     /\ req' = [req EXCEPT ![t] = r]
     /\ LET filtered == filter_data(processor.df, r.filters)
        IN IF filtered.raised THEN
             /\ Reply(t, 500, Error(filtered.exc))
             /\ UNCHANGED loc
           ELSE IF filtered.val.none THEN
             /\ Reply(t, 400, Error("Failed to apply filters"))
             /\ UNCHANGED loc
           ELSE
             /\ loc' = [loc EXCEPT ![t].df = filtered.val]
             /\ pc' = [pc EXCEPT ![t] = "an_compute"]
             /\ UNCHANGED resp
     /\ UNCHANGED << fs, processor, clock, faults >>

AnalyticsBody(df) ==
  LET kpi == get_kpi_metrics(df)
      by_region == get_revenue_by_region(df)
  IN IF kpi.raised THEN kpi
     ELSE IF by_region.raised THEN by_region
     ELSE Ok([kpi |-> kpi.val, revenue_by_region |-> by_region.val])

\* get_filtered_analytics lines 207-225: every aggregate of the filtered frame
AnalyticsCompute(t) ==
  /\ pc[t] = "an_compute"
  /\ Answer(t, AnalyticsBody(TableFrame(t)))
  /\ UNCHANGED << fs, processor, clock, faults, req, loc >>

\* get_kpi
GetKpi(t, requests) ==
  /\ Idle(t)
  /\ \E r \in { q \in requests : q.kind = "kpi" } :
     /\ req' = [req EXCEPT ![t] = r]
     /\ Answer(t, get_kpi_metrics(processor.df))
     /\ UNCHANGED << fs, processor, clock, faults, loc >>

\* ---------------------------------------------------------------- specifications
Upload(t, requests) ==
  \/ UploadSave(t, requests)
  \/ ValidateLoad(t)
  \/ ValidateCheck(t)
  \/ Backup(t)
  \/ Move(t)
  \/ Reload(t)
  \/ Assign(t)
  \/ Respond(t)

Read(t, requests) ==
  \/ GetData(t, requests)
  \/ GetDataTable(t)
  \/ Analytics(t, requests)
  \/ AnalyticsCompute(t)
  \/ GetKpi(t, requests)

Next ==
  \/ Tick
  \/ \E t \in Uploaders : Upload(t, UploadRequests)
  \/ \E t \in Readers : Read(t, FewReads)

\* one reader issues any request
NextQuery == \E t \in { r \in Readers : r = NUploaders + 1 } : Read(t, AllReads)

Writers == { t \in Uploaders : t <= NWriters }
SnapshotUploads == { r \in UploadRequests : r.filename = <<"a", "csv">> }

\* reads interleaved with the uploads of the writers, within one second
NextSnapshot ==
  \/ \E t \in Writers : Upload(t, SnapshotUploads)
  \/ \E t \in Readers : Read(t, FewReads)

\* the threaded server: uploads and reads interleave, I/O may fail
Spec == Init /\ [][Next]_vars

\* the threaded server on a disk that never fails
SpecNoFault == InitNoFault /\ [][Next]_vars

\* reads only, over any dataset
SpecQuery == InitAnyDataset /\ [][NextQuery]_vars

\* reads racing with uploads
SpecSnapshot == InitNoFault /\ [][NextSnapshot]_vars

\* ---------------------------------------------------------------- claims: queries
\* the Filter Criteria handed to filter_data by request r
Criteria(r) == IF r.kind = "get_data" THEN BuildFilters(r.args) ELSE r.filters

Supplied(f, k) ==
  IF k \in DateKeys THEN f[k].has /\ f[k].val # "" ELSE f[k].has /\ f[k].val # <<>>

\* record r satisfies every supplied predicate of f
SatisfiesAll(r, f) ==
  /\ Supplied(f, "start_date") => r.Date >= ParseDate(f.start_date.val)
  /\ Supplied(f, "end_date") => r.Date <= ParseDate(f.end_date.val)
  /\ Supplied(f, "regions") => r.Region \in { f.regions.val[i] : i \in DOMAIN f.regions.val }
  /\ Supplied(f, "channels") =>
       r.Sales_Channel \in { f.channels.val[i] : i \in DOMAIN f.channels.val }
  /\ Supplied(f, "min_price") => r.Price_Per_Unit >= f.min_price.val[1]
  /\ Supplied(f, "max_price") => r.Price_Per_Unit <= f.max_price.val[1]

Position(seq, x) == CHOOSE i \in DOMAIN seq : seq[i] = x

\* a is a subsequence of b, both without repeated elements
IsSubsequence(a, b) ==
  /\ \A i \in DOMAIN a : \E j \in DOMAIN b : b[j] = a[i]
  /\ \A i, j \in DOMAIN a : i < j => Position(b, a[i]) < Position(b, a[j])

Filtered(t) == pc[t] \in {"gd_table", "an_compute"}

PagedFrame(t) == IF NonEmpty(BuildFilters(req[t].args)) THEN loc[t].df ELSE processor.df

\* key of a rendered record under sort_by
RenderedKey(rec, col) ==
  IF col = "Date" THEN ParseDate(rec[col])
  ELSE IF col \in StringColumns THEN StringRank(rec[col]) ELSE rec[col]

RECURSIVE PagesFrom(_, _, _, _)
\* the data of pages p..last, concatenated
PagesFrom(df, r, p, last) ==
  IF p > last THEN <<>>
  ELSE get_table_data(df, p, r.per_page, r.sort_by, r.sort_order).val.data
         \o PagesFrom(df, r, p + 1, last)

Paged(t) ==
  /\ pc[t] = "done"
  /\ req[t].kind = "get_data"
  /\ req[t].per_page >= 1
  /\ ~PagedFrame(t).none
  /\ req[t].sort_by \in PagedFrame(t).columns

\* C8: for per_page >= 1 and page >= 1 get_table_data returns total = number
\* of records, pages = ceil(total / per_page) and the slice
\* [(page-1)*per_page, page*per_page) of the Dataset sorted by sort_by; the
\* pages 1..pages together hold total records; a page past the end is empty.
C8_TablePage ==
  \A t \in Readers : Paged(t) =>
    LET r == req[t]
        df == PagedFrame(t)
        n == Len(df.rows)
        body == resp[t].body
        all == PagesFrom(df, r, 1, body.pages)
        lo == (r.page - 1) * r.per_page
        hi == r.page * r.per_page
    IN /\ resp[t].status = 200
       /\ body.total = n
       /\ body.pages * r.per_page >= n
       /\ (body.pages - 1) * r.per_page < n \/ (n = 0 /\ body.pages = 0)
       /\ body.current_page = r.page
       /\ Len(all) = n
       /\ { all[i] : i \in DOMAIN all } = { Render(df.rows[i]) : i \in DOMAIN df.rows }
       /\ \A i \in 1..(n - 1) :
            IF r.sort_order = "asc"
            THEN RenderedKey(all[i], r.sort_by) <= RenderedKey(all[i + 1], r.sort_by)
            ELSE RenderedKey(all[i], r.sort_by) >= RenderedKey(all[i + 1], r.sort_by)
       /\ DOMAIN body.data = { i \in 1..r.per_page : lo + i <= n }
       /\ \A i \in DOMAIN body.data : body.data[i] = all[lo + i]
       /\ lo >= n => body.data = <<>>

\* the example of the specification: revenues 30, 10, 20, first page of two by
\* Revenue ascending
C8_Witness ==
  \E t \in Readers :
    /\ Paged(t)
    /\ processor.df.rows = load_data(FileU1, TRUE).rows
    /\ req[t] = GetDataRequest(1, 2, "Revenue", "asc", NoFilters)
    /\ resp[t].body.total = 3 /\ resp[t].body.pages = 2
    /\ [i \in DOMAIN resp[t].body.data |-> resp[t].body.data[i].Revenue] = << 10, 20 >>

\* C9: a /api/data request whose sort_by is not a column of the Dataset is
\* answered with status 400, and the Dataset stays as it was.
C9_BadSortIs400 ==
  /\ processor = DataProcessor(DATA_FILE, fs[DATA_FILE], TRUE)
  /\ \A t \in Readers :
       (/\ pc[t] = "done"
        /\ req[t].kind = "get_data"
        /\ ~processor.df.none
        /\ req[t].sort_by \notin processor.df.columns) => resp[t].status = 400

\* ---------------------------------------------------------------- claims: upload
Saved(t) == req[t].kind = "upload" /\ req[t].has_file /\ allowed_file(req[t].filename)
Finished(t) == pc[t] = "done"
Succeeded(t) == Finished(t) /\ resp[t].status = 200
Failed(t) == Finished(t) /\ resp[t].status \in {400, 500}
Quiescent == \A t \in Uploaders : pc[t] \in {"idle", "done"}
LacksColumn(file) == ~(RequiredColumns \subseteq file.header)
Complete(df) == ~df.none /\ RequiredColumns \subseteq df.columns
Backups == { fs[b] : b \in { p \in BackupPaths : fs[p].exists } }

\* C1: an upload whose file lacks a required column is answered with 400, and
\* none of its steps changes the active Dataset, the active file or a backup.
C1_MissingColumnRejected ==
  /\ [](\A t \in Uploaders :
          (Finished(t) /\ Saved(t) /\ LacksColumn(req[t].content)) => resp[t].status = 400)
  /\ [][\A t \in Uploaders :
          (pc'[t] # pc[t] /\ Saved(t)' /\ LacksColumn(req'[t].content)) =>
             /\ processor' = processor
             /\ fs'[DATA_FILE] = fs[DATA_FILE]
             /\ \A b \in BackupPaths : fs'[b] = fs[b]]_vars

\* C2: the active Dataset only ever changes to a complete Dataset, and an
\* upload that has swapped its Dataset in does not end in failure.
C2_ReplaceIsAUnit ==
  /\ [][processor' # processor => Complete(processor'.df)]_vars
  /\ [][\A t \in Uploaders : (pc[t] = "respond" /\ pc'[t] = "done") => resp'[t].status = 200]_vars

\* C3: once no upload is in flight, no failed upload has its temporary file
\* temp_<filename> on disk.
C3_NoOrphanTemp ==
  Quiescent => \A t \in Uploaders :
    (Failed(t) /\ Saved(t)) => ~fs[TempPath(req[t].filename)].exists

\* C4: the backup_file of a successful upload names a file on disk; a version
\* of the active file that gets replaced is a backup at that moment; and a
\* version that is a backup stays one.
C4_BackupsKeepEveryVersion ==
  /\ [](\A t \in Uploaders : Succeeded(t) => fs[resp[t].body.backup_file].exists)
  /\ [][(fs'[DATA_FILE] # fs[DATA_FILE] /\ fs[DATA_FILE].exists) =>
          fs[DATA_FILE] \in Backups']_vars
  /\ [][Backups \subseteq Backups']_vars

\* an unfiltered read of /api/data, all pages of two records, newest first
ReadAllPages(df) ==
  LET r == GetDataRequest(1, 2, "Date", "desc", NoFilters)
      first == get_table_data(df, 1, r.per_page, r.sort_by, r.sort_order)
  IN IF first.raised THEN first
     ELSE Ok([total |-> first.val.total,
              data |-> PagesFrom(df, r, 1, first.val.pages)])

\* the read returns exactly the records of file U, Date as an ISO string
Reflects(read, U) ==
  /\ ~read.raised
  /\ read.val.total = Len(U.rows)
  /\ Len(read.val.data) = Len(U.rows)
  /\ { read.val.data[i] : i \in DOMAIN read.val.data } = { U.rows[i] : i \in DOMAIN U.rows }

\* C5: once the uploads have finished, and one of them succeeded, an
\* unfiltered read of /api/data returns exactly the records of a file whose
\* upload succeeded.
C5_RoundTrip ==
  (Quiescent /\ \E t \in Uploaders : Succeeded(t)) =>
    \E t \in Uploaders : Succeeded(t) /\ Reflects(ReadAllPages(processor.df), req[t].content)

\* C10: once all the uploads have finished, the Dataset in memory is the
\* content of the active file, and that content is the file of an upload that
\* reported success.
C10_MemoryMatchesDisk ==
  (\A t \in Uploaders : Finished(t)) =>
    /\ processor.df = load_data(fs[DATA_FILE], TRUE)
    /\ (\E t \in Uploaders : Succeeded(t)) =>
         \E t \in Uploaders : Succeeded(t) /\ fs[DATA_FILE] = req[t].content

\* ---------------------------------------------------------------- claims: snapshot
Answered(res) ==
  IF res.raised THEN [status |-> 500, body |-> Error(res.exc)]
  ELSE [status |-> 200, body |-> res.val]

\* the response to read request r computed wholly from the one Dataset df
ResponseOn(df, r) ==
  CASE r.kind = "kpi" -> Answered(get_kpi_metrics(df))
    [] r.kind = "get_data" ->
         IF ~NonEmpty(BuildFilters(r.args))
         THEN Answered(get_table_data(df, r.page, r.per_page, r.sort_by, r.sort_order))
         ELSE LET filtered == filter_data(df, BuildFilters(r.args))
              IN IF filtered.raised THEN Answered(filtered)
                 ELSE IF filtered.val.none
                 THEN [status |-> 200,
                       body |-> [data |-> <<>>, total |-> 0, pages |-> 0, current_page |-> r.page]]
                 ELSE Answered(get_table_data(filtered.val, r.page, r.per_page,
                                              r.sort_by, r.sort_order))
    [] r.kind = "analytics" ->
         LET filtered == filter_data(df, r.filters)
         IN IF filtered.raised THEN Answered(filtered)
            ELSE IF filtered.val.none
            THEN [status |-> 400, body |-> Error("Failed to apply filters")]
            ELSE Answered(AnalyticsBody(filtered.val))

\* the Datasets the global processor can hold: the load of a file at start or
\* of an uploaded file, or no Dataset
Versions ==
  { load_data(f, TRUE) : f \in UploadFiles \cup {FileD0} } \cup {NoneDF}

\* C6: the response of a read that ran next to an upload is the response
\* computed from one single Dataset version.
C6_OneSnapshot ==
  \A t \in Readers : Finished(t) =>
    \E df \in Versions : resp[t] = ResponseOn(df, req[t])

\* a two-step read finished with the answer over the old Dataset although an
\* upload replaced the Dataset while the read was running
C6_Witness ==
  \E t \in Readers, u \in Uploaders :
    /\ Finished(t)
    /\ req[t].kind \in {"get_data", "analytics"}
    /\ resp[t].status = 200
    /\ pc[u] = "respond"
    /\ ~processor.df.none
    /\ loc[t].df.rows # processor.df.rows
    /\ resp[t] # ResponseOn(processor.df, req[t])
    /\ resp[t] = ResponseOn(load_data(FileD0, TRUE), req[t])
====
